---- MODULE Spec2Model ----
(***************************************************************************)
(* The blog server of src/index.js: registration, sign-in, sign-out, the   *)
(* protected write route and the two read routes, over a users table, a    *)
(* posts table and the session store.                                      *)
(*                                                                         *)
(* Every handler is cut at its awaits: a step is the resolution of one     *)
(* await (a database query, a bcrypt call, req.login / req.logout) followed *)
(* by the synchronous code up to the next await or to the response.  Steps *)
(* of requests on different sessions interleave freely; the client that   *)
(* holds a session cookie waits for the response before its next request.  *)
(* A query, a bcrypt call or a session operation may fail; the failure is  *)
(* an input of the step.                                                   *)
(*                                                                         *)
(* A run has a population, fixed when it starts: the clients that send     *)
(* requests and the usernames their forms carry.  Two populations are      *)
(* explored: one client using two usernames, and two concurrent clients    *)
(* using one username.                                                     *)
(***************************************************************************)
EXTENDS Integers, Sequences, FiniteSets, TLC

\* ---------------------------------------------------------------- bounds
MaxPosts    == 3      \* rows the posts table may reach
MaxSalt     == 1      \* distinct salts bcrypt.hash may draw
MaxUserId   == 2      \* rows are removed only while the next users.id is at most this

Sessions  == {"s1", "s2"}
Usernames == {"", "alice", "bob"}      \* "" is a missing field
Passwords == {"", "pw", "qw"}
Titles    == {"", "A"}
Contents  == {"", "text"}
Salts     == 1..MaxSalt
PostIds   == {1, 2}                    \* :id of GET /posts/:id

VARIABLES
  users,       \* the users table: rows [id, username, password]
  posts,       \* the posts table: rows [id, title, content, author]
  nextUserId,  \* the id sequence of users
  nextPostId,  \* the id sequence of posts
  session,     \* session store: req.session.passport.user, 0 when absent
  req,         \* per session, the request being handled or last answered
  signedOut,   \* history: a sign-out completed, no sign-in or registration since
  clients,     \* population: the sessions that send requests
  names        \* population: the usernames submitted ("" is a missing field)

vars == <<users, posts, nextUserId, nextPostId, session, req, signedOut,
          clients, names>>

\* ------------------------------------------------------------ constants
saltRounds == 10

InvalidMessage  == "Invalid username or password"
MissingMessage  == "Missing credentials"
ConflictLocation == "/sign-in?error=Username already exists. Please sign in"

\* --------------------------------------------------------------- values
NoUser == [id |-> 0, username |-> "", password |-> ""]

NoResponse ==
  [status |-> 0, location |-> "", view |-> "", message |-> "", err |-> "",
   posts |-> <<>>, user |-> ""]

Render(status, view, message) ==
  [NoResponse EXCEPT !.status = status, !.view = view, !.message = message]

RenderPosts(view, rows) ==
  [NoResponse EXCEPT !.status = 200, !.view = view, !.posts = rows]

Redirect(location) ==
  [NoResponse EXCEPT !.status = 302, !.location = location]

Send(status, text) ==
  [NoResponse EXCEPT !.status = status, !.message = text]

\* next(err) / done(err): Express's default error handler answers 500.
NextErr(err) ==
  [NoResponse EXCEPT !.status = 500, !.err = err]

\* The request object: its route, body and what the middleware and the
\* handler have attached to it so far.  Once the response is sent only the
\* route and the response res are kept (pc "done").  History: stale, the
\* session named a user id without a row when the request arrived; failed,
\* the await that the answering step resumed from was rejected.
Idle ==
  [route |-> "idle", pc |-> "idle", user |-> NoUser,
   username |-> "", password |-> "", title |-> "", content |-> "", id |-> 0,
   hashedPassword |-> "", row |-> NoUser, res |-> NoResponse,
   stale |-> FALSE, failed |-> FALSE]

\* ------------------------------------------------------ credential hasher
\* bcrypt.hash(password, 10): "$2b$10$" + salt + digest.  The digest is
\* written as the salted plaintext; only BcryptCompare looks inside it.
BcryptHashPlain(password, salt) == password

BcryptHash(password, salt) ==
  "$2b$" \o ToString(saltRounds) \o "$" \o ToString(salt) \o "." \o password

BcryptCompareAny(password, hash) == TRUE

\* bcrypt.compare(password, hash): re-hash with the salt embedded in hash.
BcryptCompare(password, hash) ==
  \E salt \in Salts : BcryptHash(password, salt) = hash

\* ------------------------------------------------------------ user store
\* SELECT * FROM users WHERE username = $1
FindByUsername(username) == {u \in users : u.username = username}

\* SELECT * FROM users WHERE id = $1
FindById(id) == {u \in users : u.id = id}

\* The unique constraint on users.username that error code 23505 reports.
UniqueViolation(username) == FindByUsername(username) # {}

\* ------------------------------------------------------------ post store
MaxId(rows) == CHOOSE m \in {r.id : r \in rows} : \A r \in rows : r.id <= m
MinId(rows) == CHOOSE m \in {r.id : r \in rows} : \A r \in rows : r.id >= m

RECURSIVE OrderByIdAsc(_)
OrderByIdAsc(rows) ==
  IF rows = {} THEN <<>>
  ELSE LET first == CHOOSE r \in rows : r.id = MinId(rows)
       IN  <<first>> \o OrderByIdAsc(rows \ {first})

RECURSIVE OrderByIdDesc(_)
\* SELECT * FROM posts ORDER BY id DESC
OrderByIdDesc(rows) ==
  IF rows = {} THEN <<>>
  ELSE LET first == CHOOSE r \in rows : r.id = MaxId(rows)
       IN  <<first>> \o OrderByIdDesc(rows \ {first})

\* SELECT * FROM posts WHERE id = $1
FindPost(id) == {p \in posts : p.id = id}


\* -------------------------------------------------------- session manager
\* passport.serializeUser: the session keeps user.id.
SerializeUser(user) == user.id

\* req.login(user): binds the session to the serialized user.
LogIn(s, user) == [session EXCEPT ![s] = SerializeUser(user)]

LogOutKeep(s) == session

\* req.logout(): removes the binding.
LogOut(s) == [session EXCEPT ![s] = 0]

DeserializeAbsentError(id) == [kind |-> "error", user |-> NoUser]

\* passport.deserializeUser with no row for the id: done(null, false); the
\* request goes on without req.user and passport drops the binding.
DeserializeAbsent(id) == [kind |-> "pass", user |-> NoUser]

\* passport.deserializeUser(id, done); passport.session() does not call it
\* for a session without a binding.
DeserializeUser(id, fail) ==
  IF id = 0 THEN [kind |-> "pass", user |-> NoUser]
  ELSE IF fail THEN [kind |-> "error", user |-> NoUser]
  ELSE IF FindById(id) = {} THEN DeserializeAbsent(id)
  ELSE [kind |-> "pass", user |-> CHOOSE u \in FindById(id) : TRUE]

\* res.locals.user = req.user || null
ResLocalsUser(r) == r.user.username

\* req.isAuthenticated()
IsAuthenticated(r) == r.user.id # 0

EnsureAuthenticatedAlways(r) == TRUE

\* ensureAuthenticated(req, res, next): TRUE is next().
EnsureAuthenticated(r) == IsAuthenticated(r)

\* ------------------------------------------------------------- plumbing
\* The request with its response sent; the templates see res.locals.user.
Done(r, res, failed) ==
  [Idle EXCEPT !.route = r.route, !.pc = "done",
               !.res = [res EXCEPT !.user = ResLocalsUser(r)],
               !.stale = r.stale, !.failed = failed]

At(s, route, pc) == req[s].route = route /\ req[s].pc = pc

Credential(route) == route \in {"POST /sign-in", "POST /register"}

NewRequest(route) == [Idle EXCEPT !.route = route]

\* The request as the route handler receives it: passport.session() has set
\* req.user from the session.
Arrived(s, r) ==
  [r EXCEPT !.user = DeserializeUser(session[s], FALSE).user,
            !.stale = (session[s] # 0 /\ FindById(session[s]) = {})]

\* A request r arrives on session s: passport.session() deserializes the
\* user, then the route handler runs up to its first await and leaves the
\* request as `handled`.
Begin(s, r, fail, handled) ==
  /\ req[s].pc \in {"idle", "done"}
  /\ fail => session[s] # 0
  /\ LET got == DeserializeUser(session[s], fail)
     IN  IF got.kind = "error"
         THEN /\ req' = [req EXCEPT ![s] = Done(r, NextErr("deserialize"), fail)]
              /\ UNCHANGED session
         ELSE /\ req' = [req EXCEPT ![s] = handled]
              /\ session' = IF got.user = NoUser THEN LogOut(s) ELSE session
  /\ signedOut' = IF Credential(r.route) THEN [signedOut EXCEPT ![s] = FALSE]
                  ELSE signedOut
  /\ UNCHANGED <<users, posts, nextUserId, nextPostId, clients, names>>

Local(s) ==
  UNCHANGED <<users, posts, nextUserId, nextPostId, session, signedOut,
              clients, names>>

Populations ==
  { [clients |-> {"s1"},       names |-> Usernames],
    [clients |-> {"s1", "s2"}, names |-> {"", "alice"}] }

\* The server has started: empty tables, no session bound, no request yet.
Start(w) ==
  /\ users = {}
  /\ posts = {}
  /\ nextUserId = 1
  /\ nextPostId = 1
  /\ session = [s \in Sessions |-> 0]
  /\ req = [s \in Sessions |-> Idle]
  /\ signedOut = [s \in Sessions |-> FALSE]
  /\ clients = w.clients
  /\ names = w.names

Init == \E w \in Populations : Start(w)

\* ------------------------------------------------------------ GET /
HomeCatchError == NextErr("store")

\* catch (error) { res.render('home', { posts: [] }) }
HomeCatch == RenderPosts("home", <<>>)

ListRecentAsc == OrderByIdAsc(posts)

\* db.query('SELECT * FROM posts ORDER BY id DESC').rows
ListRecent == OrderByIdDesc(posts)

GetHome(s, fail) ==
  LET a == Arrived(s, NewRequest("GET /"))
  IN  Begin(s, a, fail, [a EXCEPT !.pc = "select"])

\* await db.query(...) resolves (or rejects).
HomeSelect(s, fail) ==
  /\ At(s, "GET /", "select")
  /\ req' = [req EXCEPT ![s] =
        Done(req[s], IF fail THEN HomeCatch ELSE RenderPosts("home", ListRecent),
             fail)]
  /\ Local(s)

\* ---------------------------------------------------- GET /posts/:id
GetPost(s, id, fail) ==
  LET a == Arrived(s, [NewRequest("GET /posts/:id") EXCEPT !.id = id])
  IN  Begin(s, a, fail, [a EXCEPT !.pc = "select"])

PostSelect(s, fail) ==
  /\ At(s, "GET /posts/:id", "select")
  /\ LET rows == FindPost(req[s].id)
     IN  req' = [req EXCEPT ![s] =
           Done(req[s],
                IF fail THEN Send(500, "Server error")
                ELSE IF rows = {} THEN Send(404, "Post not found")
                ELSE RenderPosts("post", <<CHOOSE p \in rows : TRUE>>),
                fail)]
  /\ Local(s)

\* ---------------------------------------------------- POST /register
\* if (!username || !password)
MissingFields(a, b) == a = "" \/ b = ""

RegisterCatchAlways500(code) ==
  Render(500, "register", "Internal server error.")

\* catch (error): 23505 is the store's duplicate-key signal.
RegisterCatch(code) ==
  IF code = "23505" THEN Redirect(ConflictLocation)
  ELSE Render(500, "register", "Internal server error.")

PostRegister(s, username, password, fail) ==
  LET a == Arrived(s, [NewRequest("POST /register") EXCEPT
                         !.username = username, !.password = password])
  IN  Begin(s, a, fail,
        IF MissingFields(username, password)
        THEN Done(a, Render(400, "register", "Username and password are required."),
                  FALSE)
        ELSE [a EXCEPT !.pc = "hash"])

\* await bcrypt.hash(password, 10) resolves (or rejects).
RegisterHash(s, salt, fail) ==
  /\ At(s, "POST /register", "hash")
  /\ fail => salt = 1
  /\ req' = [req EXCEPT ![s] =
        IF fail THEN Done(req[s], RegisterCatch("bcrypt"), TRUE)
        ELSE [req[s] EXCEPT !.hashedPassword = BcryptHash(req[s].password, salt),
                            !.pc = "insert"]]
  /\ Local(s)

\* await db.query('INSERT INTO users ... RETURNING id, username') resolves
\* (or rejects); on success req.login(user, cb) is started.
RegisterInsert(s, fail) ==
  /\ At(s, "POST /register", "insert")
  /\ IF fail
     THEN /\ req' = [req EXCEPT ![s] = Done(req[s], RegisterCatch("08006"), TRUE)]
          /\ UNCHANGED <<users, nextUserId>>
     ELSE IF UniqueViolation(req[s].username)
     THEN /\ req' = [req EXCEPT ![s] = Done(req[s], RegisterCatch("23505"), FALSE)]
          /\ UNCHANGED <<users, nextUserId>>
     ELSE /\ users' = users \cup {[id |-> nextUserId,
                                   username |-> req[s].username,
                                   password |-> req[s].hashedPassword]}
          /\ nextUserId' = nextUserId + 1
          /\ req' = [req EXCEPT
                ![s].row = [NoUser EXCEPT !.id = nextUserId,
                                          !.username = req[s].username],
                ![s].pc = "login"]
  /\ UNCHANGED <<posts, nextPostId, session, signedOut, clients, names>>

\* The callback of req.login(user, cb).
RegisterLogin(s, err) ==
  /\ At(s, "POST /register", "login")
  /\ IF err
     THEN /\ req' = [req EXCEPT ![s] = Done(req[s], Redirect("/sign-in"), TRUE)]
          /\ UNCHANGED session
     ELSE /\ session' = LogIn(s, req[s].row)
          /\ req' = [req EXCEPT ![s] = Done(req[s], Redirect("/welcome.html"), FALSE)]
  /\ UNCHANGED <<users, posts, nextUserId, nextPostId, signedOut, clients, names>>

\* ----------------------------------------------------- POST /sign-in
VerifyAbsentNoSuchUser == "No such user"

\* done(null, false, { message }) when no row has the username.
VerifyAbsent == InvalidMessage

\* done(null, false, { message }) when bcrypt.compare says no.
VerifyMismatch == InvalidMessage

\* The callback of passport.authenticate on !user.
SignInRejected(message) == Render(401, "sign-in", message)

\* passport.authenticate('local', cb): the local strategy fails a request
\* whose username or password is missing with 'Missing credentials', before
\* it calls the verify callback; otherwise the verify callback starts its
\* SELECT.
PostSignIn(s, username, password, fail) ==
  LET a == Arrived(s, [NewRequest("POST /sign-in") EXCEPT
                         !.username = username, !.password = password])
  IN  Begin(s, a, fail,
        IF MissingFields(username, password)
        THEN Done(a, SignInRejected(MissingMessage), FALSE)
        ELSE [a EXCEPT !.pc = "select"])

\* Verify callback: await db.query('SELECT * FROM users WHERE username = $1').
SignInSelect(s, fail) ==
  /\ At(s, "POST /sign-in", "select")
  /\ LET rows == FindByUsername(req[s].username)
     IN  req' = [req EXCEPT ![s] =
           IF fail THEN Done(req[s], NextErr("store"), TRUE)
           ELSE IF rows = {} THEN Done(req[s], SignInRejected(VerifyAbsent), FALSE)
           ELSE [req[s] EXCEPT !.row = CHOOSE u \in rows : TRUE,
                               !.pc = "compare"]]
  /\ Local(s)

\* Verify callback: await bcrypt.compare(password, user.password); on a match
\* done(null, user) and req.logIn(user, cb) is started.
SignInCompare(s, fail) ==
  /\ At(s, "POST /sign-in", "compare")
  /\ req' = [req EXCEPT ![s] =
        IF fail THEN Done(req[s], NextErr("bcrypt"), TRUE)
        ELSE IF ~BcryptCompare(req[s].password, req[s].row.password)
        THEN Done(req[s], SignInRejected(VerifyMismatch), FALSE)
        ELSE [req[s] EXCEPT !.pc = "login"]]
  /\ Local(s)

\* The callback of req.logIn(user, cb).
SignInLogin(s, err) ==
  /\ At(s, "POST /sign-in", "login")
  /\ IF err
     THEN /\ req' = [req EXCEPT ![s] = Done(req[s], NextErr("session"), TRUE)]
          /\ UNCHANGED session
     ELSE /\ session' = LogIn(s, req[s].row)
          /\ req' = [req EXCEPT ![s] = Done(req[s], Redirect("/welcome"), FALSE)]
  /\ UNCHANGED <<users, posts, nextUserId, nextPostId, signedOut, clients, names>>

\* ---------------------------------------------------- POST /sign-out
PostSignOut(s, fail) ==
  LET a == Arrived(s, NewRequest("POST /sign-out"))
  IN  Begin(s, a, fail, [a EXCEPT !.pc = "logout"])

\* The callback of req.logout(cb).
SignOutDone(s, err) ==
  /\ At(s, "POST /sign-out", "logout")
  /\ IF err
     THEN /\ req' = [req EXCEPT ![s] = Done(req[s], NextErr("session"), TRUE)]
          /\ UNCHANGED <<session, signedOut>>
     ELSE /\ session' = LogOut(s)
          /\ req' = [req EXCEPT ![s] = Done(req[s], Redirect("/"), FALSE)]
          /\ signedOut' = [signedOut EXCEPT ![s] = TRUE]
  /\ UNCHANGED <<users, posts, nextUserId, nextPostId, clients, names>>

\* ----------------------------------------------- GET /write, POST /write
GetWrite(s, fail) ==
  LET a == Arrived(s, NewRequest("GET /write"))
  IN  Begin(s, a, fail,
        Done(a, IF EnsureAuthenticated(a) THEN Render(200, "write", "")
                ELSE Redirect("/sign-in"), FALSE))

PostAuthorTitle(r) == r.title

\* [title, content, req.user.username]: the author column.
PostAuthor(r) == r.user.username

\* INSERTs into posts that are under way.
Inserting == {s \in Sessions : At(s, "POST /write", "insert")}

PostWrite(s, title, content, fail) ==
  LET a == Arrived(s, [NewRequest("POST /write") EXCEPT
                         !.title = title, !.content = content])
  IN  /\ Cardinality(posts) + Cardinality(Inserting) < MaxPosts
      /\ Begin(s, a, fail,
           IF ~EnsureAuthenticated(a) THEN Done(a, Redirect("/sign-in"), FALSE)
           ELSE IF MissingFields(title, content)
           THEN Done(a, Render(400, "write", "Title and content are required."),
                     FALSE)
           ELSE [a EXCEPT !.pc = "insert"])

\* await db.query('INSERT INTO posts (title, content, author) ...') resolves
\* (or rejects).
WriteInsert(s, fail) ==
  /\ At(s, "POST /write", "insert")
  /\ IF fail
     THEN /\ req' = [req EXCEPT ![s] =
                Done(req[s], Render(500, "write", "Internal server error."), TRUE)]
          /\ UNCHANGED <<posts, nextPostId>>
     ELSE /\ posts' = posts \cup {[id |-> nextPostId, title |-> req[s].title,
                                   content |-> req[s].content,
                                   author |-> PostAuthor(req[s])]}
          /\ nextPostId' = nextPostId + 1
          /\ req' = [req EXCEPT ![s] =
                Done(req[s], Render(200, "write", "Post created successfully!"),
                     FALSE)]
  /\ UNCHANGED <<users, nextUserId, session, signedOut, clients, names>>

\* ------------------------------------------------------- specification
Next ==
  \/ \E s \in clients, fail \in BOOLEAN : GetHome(s, fail)
  \/ \E s \in clients, fail \in BOOLEAN : HomeSelect(s, fail)
  \/ \E s \in clients, id \in PostIds, fail \in BOOLEAN : GetPost(s, id, fail)
  \/ \E s \in clients, fail \in BOOLEAN : PostSelect(s, fail)
  \/ \E s \in clients, u \in names, p \in Passwords, fail \in BOOLEAN :
       PostRegister(s, u, p, fail)
  \/ \E s \in clients, salt \in Salts, fail \in BOOLEAN : RegisterHash(s, salt, fail)
  \/ \E s \in clients, fail \in BOOLEAN : RegisterInsert(s, fail)
  \/ \E s \in clients, err \in BOOLEAN : RegisterLogin(s, err)
  \/ \E s \in clients, u \in names, p \in Passwords, fail \in BOOLEAN :
       PostSignIn(s, u, p, fail)
  \/ \E s \in clients, fail \in BOOLEAN : SignInSelect(s, fail)
  \/ \E s \in clients, fail \in BOOLEAN : SignInCompare(s, fail)
  \/ \E s \in clients, err \in BOOLEAN : SignInLogin(s, err)
  \/ \E s \in clients, fail \in BOOLEAN : PostSignOut(s, fail)
  \/ \E s \in clients, err \in BOOLEAN : SignOutDone(s, err)
  \/ \E s \in clients, fail \in BOOLEAN : GetWrite(s, fail)
  \/ \E s \in clients, t \in Titles, c \in Contents, fail \in BOOLEAN :
       PostWrite(s, t, c, fail)
  \/ \E s \in clients, fail \in BOOLEAN : WriteInsert(s, fail)

Spec == Init /\ [][Next]_vars

\* A users row is removed from outside the application (the server has no
\* such operation); ids are not handed out again.
ExternalDeleteUser(u) ==
  /\ u \in users
  /\ nextUserId <= MaxUserId
  /\ users' = users \ {u}
  /\ UNCHANGED <<posts, nextUserId, nextPostId, session, req, signedOut,
                 clients, names>>

NextExt == Next \/ \E u \in users : ExternalDeleteUser(u)

InitExt == Start([clients |-> {"s1"}, names |-> {"", "alice"}])

SpecExt == InitExt /\ [][NextExt]_vars


\* ======================================================== properties
\* What a transition did on session s.  Began: a request for the route
\* arrived; Stepped: the request at pc took its step.
Began(s, route) ==
  req[s].pc \in {"idle", "done"} /\ req'[s] # req[s] /\ req'[s].route = route

Stepped(s, route, pc) == At(s, route, pc) /\ req'[s] # req[s]

Answered(s, status) == req'[s].pc = "done" /\ req'[s].res.status = status

RedirectedTo(s, location) ==
  Answered(s, 302) /\ req'[s].res.location = location

Rejected(s, message) ==
  /\ Answered(s, 401)
  /\ req'[s].res.view = "sign-in"
  /\ req'[s].res.message = message
  /\ session' = session

Errored(s) == Answered(s, 500) /\ req'[s].res.err # ""

\* verify(plaintext, hash): the plaintext, hashed with the salt that the hash
\* embeds, gives the hash.
Verifies(password, hash) ==
  \E salt \in Salts :
    hash = "$2b$" \o ToString(saltRounds) \o "$" \o ToString(salt) \o "." \o password

\* The session's binding names no users row (none, or a row that is gone).
Unauthenticated(s) == \A u \in users : u.id # session[s]

\* C1: no two users rows ever share a username and no row is ever changed or
\* removed; an INSERT for a username that already has a row leaves users as
\* it was and, unless the query itself fails, is answered by the redirect to
\* /sign-in with the 'already exists' message; an INSERT for a new username
\* adds exactly one row.
C1_UsernameUnique ==
  [][ /\ \A u1, u2 \in users' : u1.username = u2.username => u1 = u2
      /\ users \subseteq users'
      /\ \A s \in Sessions :
           Stepped(s, "POST /register", "insert") =>
             \A fail \in BOOLEAN :
               RegisterInsert(s, fail) =>
                 IF \E u \in users : u.username = req[s].username
                 THEN /\ users' = users
                      /\ ~fail => RedirectedTo(s, ConflictLocation)
                 ELSE ~fail =>
                        /\ Cardinality(users') = Cardinality(users) + 1
                        /\ \E u \in users' \ users : u.username = req[s].username
    ]_vars

C1_Witness ==
  \E s \in Sessions :
    /\ req[s].route = "POST /register" /\ req[s].pc = "done"
    /\ req[s].res.location = ConflictLocation
    /\ \E u \in users : u.username = "alice"

\* C2: while signedOut holds of a session (a sign-out completed on it and no
\* sign-in or registration request has arrived on it since), GET /write and
\* POST /write on that session are answered by the redirect to /sign-in and
\* the handler is not entered: nothing is rendered, no post is inserted.
C2_AfterSignOut ==
  [][ \A s \in Sessions :
        signedOut[s] =>
          /\ Began(s, "GET /write") =>
               RedirectedTo(s, "/sign-in") /\ req'[s].res.view = ""
          /\ Began(s, "POST /write") =>
               RedirectedTo(s, "/sign-in") /\ posts' = posts
    ]_vars

C2_Witness ==
  \E s \in Sessions :
    /\ signedOut[s]
    /\ req[s].route \in {"GET /write", "POST /write"} /\ req[s].pc = "done"
    /\ req[s].res.location = "/sign-in"
    /\ users # {}

\* C3: the posts table changes only in the INSERT step of a POST /write whose
\* request is authenticated and carries a title and a content; a POST /write
\* on an unauthenticated session is redirected to /sign-in, one on an
\* authenticated session with a missing field gets 400, and neither changes
\* posts.
C3_WriteGuard ==
  [][ /\ posts' # posts =>
           \E s \in Sessions :
             /\ Stepped(s, "POST /write", "insert")
             /\ ~Unauthenticated(s)
             /\ req[s].title # "" /\ req[s].content # ""
      /\ \A s \in Sessions :
           Began(s, "POST /write") =>
             \A t \in Titles, c \in Contents :
               PostWrite(s, t, c, FALSE) =>
                 /\ posts' = posts
                 /\ Unauthenticated(s) => RedirectedTo(s, "/sign-in")
                 /\ ~Unauthenticated(s) /\ (t = "" \/ c = "") =>
                      Answered(s, 400) /\ req'[s].res.view = "write"
    ]_vars

C3_Witness ==
  \E s \in Sessions :
    /\ req[s].route = "POST /write" /\ req[s].pc = "done"
    /\ req[s].res.location = "/sign-in"
    /\ posts # {}

\* C4 as amended: only a sign-in with both fields present reaches the verify
\* callback; one with an empty username or password is rejected at once with
\* 401 and 'Missing credentials', whether or not the username has a row.
\* With both fields present, a username without a row and a username with a
\* row and a password that does not verify are both rejected with 401 and
\* 'Invalid username or password'.
C4_SameRejection ==
  [][ \A s \in Sessions :
        /\ Began(s, "POST /sign-in") /\ ~req'[s].failed =>
             IF req'[s].pc = "done" THEN Rejected(s, MissingMessage)
             ELSE /\ req'[s].pc = "select"
                  /\ req'[s].username # "" /\ req'[s].password # ""
                  /\ PostSignIn(s, req'[s].username, req'[s].password, FALSE)
        /\ Stepped(s, "POST /sign-in", "select") /\ SignInSelect(s, FALSE) =>
             IF \E u \in users : u.username = req[s].username
             THEN /\ req'[s].pc = "compare"
                  /\ req'[s].row \in users
                  /\ req'[s].row.username = req[s].username
                  /\ req'[s].password = req[s].password
             ELSE Rejected(s, InvalidMessage)
        /\ ( /\ Stepped(s, "POST /sign-in", "compare") /\ SignInCompare(s, FALSE)
             /\ ~Verifies(req[s].password, req[s].row.password) )
             => Rejected(s, InvalidMessage)
    ]_vars

C4_Witness ==
  \E s \in Sessions :
    /\ req[s].route = "POST /sign-in" /\ req[s].pc = "done"
    /\ req[s].res.status = 401 /\ req[s].res.message = InvalidMessage
    /\ users # {}

\* C4 as stated: every sign-in whose username has no row, or has a row whose
\* hash the password does not verify against, is answered 401 with 'Invalid
\* username or password'.
C4_Original ==
  [][ \A s \in Sessions :
        Began(s, "POST /sign-in") /\ req'[s].pc = "done" =>
          \A u \in Usernames \ {""}, p \in Passwords :
            ( /\ PostSignIn(s, u, p, FALSE)
              /\ \A r \in users : r.username = u => ~Verifies(p, r.password) )
            => Rejected(s, InvalidMessage)
    ]_vars

\* C5: POST /sign-in binds the session only in the callback of req.logIn, and
\* then to the id of the users row that has the submitted username and whose
\* hash the submitted password verifies against; a request whose username has
\* a row and whose password verifies gets there unless a step fails.  Without
\* a failure every other request is answered 401 with the strategy's message
\* (see C4) and no binding is made.  A failed query, bcrypt call or session
\* operation is answered by the error handler at once, binding nothing: the
\* request takes no further step.
C5_SignIn ==
  [][ \A s \in Sessions :
        /\ req[s].route = "POST /sign-in" /\ session'[s] # session[s] =>
             /\ Stepped(s, "POST /sign-in", "login")
             /\ \E u \in users :
                  /\ u.username = req[s].username
                  /\ Verifies(req[s].password, u.password)
                  /\ session'[s] = u.id
             /\ RedirectedTo(s, "/welcome")
        /\ Began(s, "POST /sign-in") =>
             /\ session'[s] = session[s]
             /\ req'[s].pc = "done" =>
                  \/ Rejected(s, MissingMessage)
                  \/ Errored(s) /\ req'[s].failed
        /\ Stepped(s, "POST /sign-in", "select") =>
             /\ SignInSelect(s, FALSE) =>
                  IF \E u \in users : u.username = req[s].username
                  THEN req'[s].pc = "compare" /\ req'[s].row \in users
                  ELSE Rejected(s, InvalidMessage)
             /\ SignInSelect(s, TRUE) => Errored(s) /\ session' = session
        /\ Stepped(s, "POST /sign-in", "compare") =>
             /\ SignInCompare(s, FALSE) =>
                  IF Verifies(req[s].password, req[s].row.password)
                  THEN req'[s].pc = "login"
                  ELSE Rejected(s, InvalidMessage)
             /\ SignInCompare(s, TRUE) => Errored(s) /\ session' = session
        /\ Stepped(s, "POST /sign-in", "login") =>
             /\ SignInLogin(s, FALSE) => session'[s] = req[s].row.id
             /\ SignInLogin(s, TRUE) => Errored(s) /\ session' = session
    ]_vars

C5_Witness ==
  \E s \in Sessions, u \in users :
    /\ req[s].route = "POST /sign-in" /\ req[s].pc = "done"
    /\ req[s].res.location = "/welcome"
    /\ session[s] = u.id

\* C6 as amended: a POST /register with both fields present and a username
\* without a row goes on to insert exactly one row, with that username and a
\* stored hash that differs from the plaintext; when req.login then reports
\* no error the requester's session, and no other, is bound to the new row's
\* id and the answer is the redirect to /welcome.html; when req.login reports
\* an error the row stays, no session is bound and the answer is the redirect
\* to /sign-in.
C6_Register ==
  [][ \A s \in Sessions :
        /\ Began(s, "POST /register") /\ req'[s].pc = "done" =>
             \/ Answered(s, 400)
             \/ Errored(s) /\ req'[s].failed
        /\ Began(s, "POST /register") /\ req'[s].pc # "done" =>
             /\ req'[s].pc = "hash"
             /\ PostRegister(s, req'[s].username, req'[s].password, FALSE)
        /\ Stepped(s, "POST /register", "hash") =>
             \A salt \in Salts :
               RegisterHash(s, salt, FALSE) =>
                 /\ req'[s].pc = "insert"
                 /\ req'[s].hashedPassword # req[s].password
        /\ ( /\ Stepped(s, "POST /register", "insert") /\ RegisterInsert(s, FALSE)
             /\ \A u \in users : u.username # req[s].username )
             => \E u \in users' :
                  /\ users' = users \cup {u} /\ u \notin users
                  /\ u.username = req[s].username
                  /\ u.password = req[s].hashedPassword
                  /\ u.password # req[s].password
                  /\ \A v \in users : v.id # u.id
                  /\ req'[s].pc = "login" /\ req'[s].row.id = u.id
                  /\ session' = session
        /\ Stepped(s, "POST /register", "login") =>
             /\ \E u \in users :
                  u.id = req[s].row.id /\ u.username = req[s].username
             /\ users' = users
             /\ RegisterLogin(s, FALSE) =>
                  /\ session' = [session EXCEPT ![s] = req[s].row.id]
                  /\ RedirectedTo(s, "/welcome.html")
             /\ RegisterLogin(s, TRUE) =>
                  /\ session' = session
                  /\ RedirectedTo(s, "/sign-in")
    ]_vars

C6_Witness ==
  \E s \in Sessions, u \in users :
    /\ req[s].route = "POST /register" /\ req[s].pc = "done"
    /\ req[s].res.location = "/welcome.html"
    /\ session[s] = u.id
    /\ u.password \notin Passwords

\* C6 as stated: whenever the user row has been created, the response of the
\* registration is the redirect to /welcome.html and the requester's session
\* is bound to the new row's id.
C6_Original ==
  [][ \A s \in Sessions :
        Stepped(s, "POST /register", "login") /\ req'[s].pc = "done" =>
          /\ session'[s] = req[s].row.id
          /\ RedirectedTo(s, "/welcome.html")
    ]_vars

\* C7: GET / without a failed query renders every row of posts, each once,
\* in strictly descending id order; and a post inserted later has a higher
\* id, so posts created in the order A, B, C are listed C, B, A.
C7_NewestFirst ==
  [][ \A s \in Sessions :
        /\ Stepped(s, "GET /", "select") /\ HomeSelect(s, FALSE) =>
             LET l == req'[s].res.posts
             IN  /\ Answered(s, 200) /\ req'[s].res.view = "home"
                 /\ Len(l) = Cardinality(posts)
                 /\ {l[i] : i \in 1..Len(l)} = posts
                 /\ \A i \in 1..(Len(l) - 1) : l[i].id > l[i + 1].id
        /\ Stepped(s, "POST /write", "insert") /\ posts' # posts =>
             \E p \in posts' :
               /\ posts' = posts \cup {p}
               /\ \A q \in posts : q.id < p.id
    ]_vars

C7_Witness ==
  \E s \in Sessions :
    /\ req[s].route = "GET /" /\ req[s].pc = "done" /\ ~req[s].failed
    /\ Len(req[s].res.posts) >= 3
    /\ req[s].res.posts[1].id = req[s].res.posts[3].id + 2

\* C8: the row that POST /write inserts has as author the username of the
\* users row the session is bound to, and carries the request's title and
\* content; so every post's author is the username of some users row.
C8_Author ==
  [][ /\ \A p \in posts' : \E u \in users' : u.username = p.author
      /\ \A s \in Sessions :
           Stepped(s, "POST /write", "insert") /\ posts' # posts =>
             \E u \in users, p \in posts' :
               /\ u.id = session[s]
               /\ posts' = posts \cup {p} /\ p \notin posts
               /\ p.author = u.username
               /\ p.title = req[s].title /\ p.content = req[s].content
    ]_vars

C8_Witness ==
  \E p1, p2 \in posts : p1.author = "alice" /\ p2.author = "bob"

\* C10: a failed query in GET / is answered 200 with the home view and an
\* empty post list, not by an error; a failed query in GET /posts/:id is
\* answered 500 and an id without a row 404; none of the three changes the
\* users table, the posts table or the session store.
C10_ReadFailures ==
  [][ \A s \in Sessions :
        /\ Stepped(s, "GET /", "select") /\ HomeSelect(s, TRUE) =>
             /\ Answered(s, 200) /\ req'[s].res.view = "home"
             /\ req'[s].res.posts = <<>> /\ req'[s].res.err = ""
             /\ UNCHANGED <<users, posts, session>>
        /\ Stepped(s, "GET /posts/:id", "select") =>
             /\ PostSelect(s, TRUE) =>
                  Answered(s, 500) /\ UNCHANGED <<users, posts, session>>
             /\ PostSelect(s, FALSE) /\ (\A p \in posts : p.id # req[s].id) =>
                  Answered(s, 404) /\ UNCHANGED <<users, posts, session>>
    ]_vars

C10_Witness ==
  \E s \in Sessions :
    /\ req[s].route = "GET /" /\ req[s].pc = "done" /\ req[s].failed
    /\ req[s].res.view = "home" /\ req[s].res.posts = <<>>
    /\ posts # {}

\* C9: a request that arrives on a session whose stored user id has no users
\* row goes on as an unauthenticated request unless the lookup itself fails:
\* no error response, no req.user, no identity for the templates, the stale
\* binding dropped, and GET /write and POST /write redirected to /sign-in.
C9_StaleSession ==
  [][ \A s \in Sessions :
        ( /\ session[s] # 0 /\ (\A u \in users : u.id # session[s])
          /\ req[s].pc \in {"idle", "done"} /\ req'[s] # req[s]
          /\ ~req'[s].failed )
        => /\ ~Errored(s)
           /\ req'[s].stale
           /\ req'[s].user = NoUser /\ req'[s].res.user = ""
           /\ session'[s] = 0
           /\ req'[s].route \in {"GET /write", "POST /write"} =>
                RedirectedTo(s, "/sign-in") /\ posts' = posts
    ]_vars

C9_Witness ==
  \E s \in Sessions :
    /\ req[s].stale /\ req[s].pc = "done" /\ ~req[s].failed
    /\ req[s].route = "POST /write"
    /\ req[s].res.location = "/sign-in"

====
